---- MODULE Spec2Model ----
(***************************************************************************)
(* Model of calculator.py: the SafeEvaluator tree walk over a parsed       *)
(* expression, the constant and function tables, the interactive loop      *)
(* run_repl and the command-line dispatch in main.                         *)
(*                                                                         *)
(* Python numbers are modelled by their type and value.  An int or bool    *)
(* holds its exact value; a float holds a fixed-point value counted in     *)
(* units of 1/FloatScale: a result that is not representable is rounded to *)
(* the nearest unit, as binary floating point rounds to the nearest        *)
(* representable number, and so a result below half a unit underflows to   *)
(* 0.0.  A complex number holds only whether it is zero.                   *)
(***************************************************************************)
EXTENDS Integers, Sequences, FiniteSets, TLC

VARIABLES
    consts,     \* ALLOWED_CONSTANTS, the module-level dict
    funcs,      \* ALLOWED_FUNCTIONS, the module-level dict
    phase,      \* evaluator harness: "idle" or "returned"
    ncalls,     \* evaluator harness: calls made so far, counted up to MaxCalls
    expr,       \* the tree handed to SafeEvaluator.visit by the last call
    outcome,    \* what that call returned or raised
    pc,         \* position of the program: main, prompt, exit0, traceback
    argv,       \* args.expression: None or a string
    line,       \* what the last input() call returned (or EOF)
    stdout,     \* what has been printed so far
    nread,      \* number of input() calls made
    nevals      \* number of evaluate_expression calls made by the program

vars == <<consts, funcs, phase, ncalls, expr, outcome, pc, argv, line, stdout, nread, nevals>>

evalVars == <<phase, ncalls, expr, outcome>>
progVars == <<pc, argv, line, stdout, nread, nevals>>

(***************************************************************************)
(* Bounds of the model.                                                    *)
(***************************************************************************)
\* integer literals range over 0..MaxInt; float literals over k/FloatScale
MaxInt == 2
\* a call carries at most MaxArgs positional arguments
MaxArgs == 2
\* floats are counted in units of 1/FloatScale
FloatScale == 4
\* the interactive loop reads at most MaxLines lines
MaxLines == 3
\* the evaluator harness counts its calls up to MaxCalls
MaxCalls == 2

(***************************************************************************)
(* Python values and outcomes.                                             *)
(***************************************************************************)
PyInt(n) == [ty |-> "int", v |-> n]
PyBool(b) == [ty |-> "bool", v |-> IF b THEN 1 ELSE 0]
\* the float q/FloatScale
PyFloat(q) == [ty |-> "float", v |-> q]
\* a complex number; only its being zero is kept
PyComplex(nonzero) == [ty |-> "complex", v |-> IF nonzero THEN 1 ELSE 0]
\* a string constant (its text is irrelevant to the evaluator)
PyStr == [ty |-> "str", v |-> 0]
\* a float returned by a transcendental library function, value not computed
PyLibFloat(fn, args) == [ty |-> "float", fn |-> fn, args |-> args]

Return(val) == [ok |-> TRUE, val |-> val]
Raise(cls, msg) == [ok |-> FALSE, exc |-> cls, msg |-> msg]

IsComplex(x) == x.ty = "complex"
IsFloat(x) == x.ty = "float"
\* bool is a subclass of int
IsIntegral(x) == x.ty \in {"int", "bool"}
\* the value of a real number in units of 1/FloatScale
Units(x) == IF IsFloat(x) THEN x.v ELSE x.v * FloatScale
IsZero(x) == x.v = 0

Abs(n) == IF n < 0 THEN -n ELSE n
Sign(n) == IF n < 0 THEN -1 ELSE 1
\* floor(p / q), q # 0
Floor(p, q) == IF q > 0 THEN p \div q ELSE (-p) \div (-q)
\* p / q rounded to the nearest integer, q # 0
Round(p, q) == Floor(2 * p * Sign(q) + Abs(q), 2 * Abs(q))

RECURSIVE NatPow(_, _)
NatPow(b, n) == IF n = 0 THEN 1 ELSE b * NatPow(b, n - 1)

\* (a/FloatScale)^(f/FloatScale) for a >= 0 and 0 < f < FloatScale, rounded to
\* the nearest n/FloatScale
Root(a, f) ==
    LET x == NatPow(a, f) * NatPow(FloatScale, FloatScale - f) * NatPow(2, FloatScale)
    IN  CHOOSE n \in 0..(a + FloatScale) :
            /\ n = 0 \/ NatPow(2 * n - 1, FloatScale) <= x
            /\ NatPow(2 * n + 1, FloatScale) > x

\* the square root of a/FloatScale, rounded to the nearest n/FloatScale
Sqrt(a) ==
    CHOOSE n \in 0..(a + FloatScale) :
        /\ n = 0 \/ (2 * n - 1) * (2 * n - 1) <= 4 * a * FloatScale
        /\ (2 * n + 1) * (2 * n + 1) > 4 * a * FloatScale

(***************************************************************************)
(* Python's arithmetic on the values above (the operators that             *)
(* _apply_binop and _apply_unaryop apply).                                 *)
(***************************************************************************)
ZeroDivisionError == Raise("ZeroDivisionError", "division by zero")
\* e.g. unsupported operand type(s) for //: 'complex' and 'int'
OperandTypeError == Raise("TypeError", "unsupported operand type")

\* left + right and left - right, sign = 1 or -1
PyAddSub(left, right, sign) ==
    IF IsComplex(left) \/ IsComplex(right)
    THEN Return(PyComplex(~(IsZero(left) /\ IsZero(right))))
    ELSE IF IsIntegral(left) /\ IsIntegral(right)
    THEN Return(PyInt(left.v + sign * right.v))
    ELSE Return(PyFloat(Units(left) + sign * Units(right)))

\* left * right
PyMul(left, right) ==
    IF IsComplex(left) \/ IsComplex(right)
    THEN Return(PyComplex(~(IsZero(left) \/ IsZero(right))))
    ELSE IF IsIntegral(left) /\ IsIntegral(right)
    THEN Return(PyInt(left.v * right.v))
    ELSE Return(PyFloat(Round(Units(left) * Units(right), FloatScale)))

\* left / right
PyTrueDiv(left, right) ==
    IF IsZero(right) THEN ZeroDivisionError
    ELSE IF IsComplex(left) \/ IsComplex(right)
    THEN Return(PyComplex(~IsZero(left)))
    ELSE Return(PyFloat(Round(Units(left) * FloatScale, Units(right))))

\* left // right
PyFloorDiv(left, right) ==
    IF IsComplex(left) \/ IsComplex(right) THEN OperandTypeError
    ELSE IF IsZero(right) THEN ZeroDivisionError
    ELSE IF IsIntegral(left) /\ IsIntegral(right)
    THEN Return(PyInt(Floor(left.v, right.v)))
    ELSE Return(PyFloat(Floor(Units(left), Units(right)) * FloatScale))

\* left % right
PyMod(left, right) ==
    IF IsComplex(left) \/ IsComplex(right) THEN OperandTypeError
    ELSE IF IsZero(right) THEN ZeroDivisionError
    ELSE IF IsIntegral(left) /\ IsIntegral(right)
    THEN Return(PyInt(left.v - Floor(left.v, right.v) * right.v))
    ELSE Return(PyFloat(Units(left) - Floor(Units(left), Units(right)) * Units(right)))

\* float.__pow__ on a/FloatScale and e/FloatScale: the integer part m of the
\* exponent is applied exactly, its fractional part f/FloatScale through Root
FloatPow(a, e) ==
    LET m == Floor(e, FloatScale)
        f == e - m * FloatScale
        r == IF f = 0 THEN FloatScale ELSE Root(Abs(a), f)
    IN  IF a = 0
        THEN IF e < 0 THEN Raise("ZeroDivisionError", "0.0 cannot be raised to a negative power")
             ELSE Return(PyFloat(IF e = 0 THEN FloatScale ELSE 0))
        ELSE IF a < 0 /\ f # 0
        THEN Return(PyComplex(TRUE))
        ELSE IF m >= 0
        THEN Return(PyFloat(Round(NatPow(a, m) * r, NatPow(FloatScale, m))))
        ELSE Return(PyFloat(Round(NatPow(FloatScale, -m) * r, NatPow(a, -m))))

\* left ** right
PyPow(left, right) ==
    IF IsComplex(left) \/ IsComplex(right)
    THEN IF IsZero(left)
         THEN IF IsZero(right) THEN Return(PyComplex(TRUE))
              ELSE IF IsComplex(right) \/ right.v < 0
              THEN Raise("ZeroDivisionError", "0.0 to a negative or complex power")
              ELSE Return(PyComplex(FALSE))
         ELSE Return(PyComplex(TRUE))
    ELSE IF IsIntegral(left) /\ IsIntegral(right) /\ right.v >= 0
    THEN Return(PyInt(NatPow(left.v, right.v)))
    ELSE FloatPow(Units(left), Units(right))

\* +operand
PyPos(operand) ==
    IF operand.ty = "bool" THEN PyInt(operand.v) ELSE operand

\* -operand
PyNeg(operand) ==
    IF IsComplex(operand) THEN operand
    ELSE IF IsIntegral(operand) THEN PyInt(-operand.v)
    ELSE PyFloat(-operand.v)

(***************************************************************************)
(* The tables.                                                             *)
(***************************************************************************)
\* x/100000 as a float
Decimal5(x) == PyFloat(Round(x * FloatScale, 100000))

ALLOWED_CONSTANTS ==
    [name \in {"pi", "e", "tau"} |->
        CASE name = "pi" -> Decimal5(314159)
          [] name = "e" -> Decimal5(271828)
          [] name = "tau" -> Decimal5(628319)]

FunctionNames ==
    {"sin", "cos", "tan", "asin", "acos", "atan", "sinh", "cosh", "tanh", "sqrt",
     "log", "log10", "log2", "exp", "fabs", "ceil", "floor", "factorial", "deg", "rad"}

\* each name is bound to the math function of that name, but deg and rad
ALLOWED_FUNCTIONS ==
    [name \in FunctionNames |->
        CASE name = "deg" -> "degrees"
          [] name = "rad" -> "radians"
          [] OTHER -> name]

(***************************************************************************)
(* The math library functions the table holds.                             *)
(***************************************************************************)
\* variant of MathArgCounts in which every function takes an optional argument
MathArgCountsVariadic(fn) == {1, 2}

\* the argument counts math.<fn> accepts: math.log takes an optional base
MathArgCounts(fn) == IF fn = "log" THEN {1, 2} ELSE {1}

MathDomainError == Raise("ValueError", "math domain error")

RECURSIVE Factorial(_)
Factorial(n) == IF n <= 1 THEN 1 ELSE n * Factorial(n - 1)

\* math.<fn>(*args), args a sequence of values
MathCall(fn, args) ==
    LET x == args[1]
    IN  IF Len(args) \notin MathArgCounts(fn)
        THEN Raise("TypeError", "wrong number of arguments")
        ELSE IF \E i \in 1..Len(args) : IsComplex(args[i])
        THEN Raise("TypeError", "must be real number, not complex")
        ELSE CASE fn = "fabs" -> Return(PyFloat(Abs(Units(x))))
               [] fn = "floor" -> Return(PyInt(Floor(Units(x), FloatScale)))
               [] fn = "ceil" -> Return(PyInt(-Floor(-Units(x), FloatScale)))
               [] fn = "factorial" ->
                    IF IsFloat(x)
                    THEN Raise("TypeError", "'float' object cannot be interpreted as an integer")
                    ELSE IF x.v < 0
                    THEN Raise("ValueError", "factorial() not defined for negative values")
                    ELSE Return(PyInt(Factorial(x.v)))
               [] fn = "sqrt" ->
                    IF Units(x) < 0 THEN MathDomainError
                    ELSE Return(PyFloat(Sqrt(Units(x))))
               [] fn \in {"log10", "log2"} ->
                    IF Units(x) <= 0 THEN MathDomainError
                    ELSE Return(PyLibFloat(fn, args))
               [] fn = "log" ->
                    IF Units(x) <= 0 THEN MathDomainError
                    ELSE IF Len(args) = 2 /\ Units(args[2]) <= 0 THEN MathDomainError
                    ELSE IF Len(args) = 2 /\ Units(args[2]) = FloatScale
                    THEN Raise("ZeroDivisionError", "float division by zero")
                    ELSE Return(PyLibFloat(fn, args))
               [] fn \in {"asin", "acos"} ->
                    IF Abs(Units(x)) > FloatScale THEN MathDomainError
                    ELSE Return(PyLibFloat(fn, args))
               [] OTHER -> Return(PyLibFloat(fn, args))

(***************************************************************************)
(* Syntax trees, as ast.parse builds them.                                 *)
(***************************************************************************)
Expression(body) == [kind |-> "Expression", body |-> body]
Constant(value) == [kind |-> "Constant", value |-> value]
Name(id) == [kind |-> "Name", id |-> id]
UnaryOp(op, operand) == [kind |-> "UnaryOp", op |-> op, operand |-> operand]
BinOp(left, op, right) == [kind |-> "BinOp", left |-> left, op |-> op, right |-> right]
\* keywords is the sequence of the keyword arguments' names
Call(func, args, keywords) ==
    [kind |-> "Call", func |-> func, args |-> args, keywords |-> keywords]
\* node classes the evaluator has no case for
List == [kind |-> "List"]
Compare == [kind |-> "Compare"]
\* math.sin, as the func of a Call
Attribute == [kind |-> "Attribute"]

(***************************************************************************)
(* SafeEvaluator.                                                          *)
(***************************************************************************)
apply_binop(op, left, right) ==
    CASE op = "Add" -> PyAddSub(left, right, 1)
      [] op = "Sub" -> PyAddSub(left, right, -1)
      [] op = "Mult" -> PyMul(left, right)
      [] op = "Div" -> PyTrueDiv(left, right)
      [] op = "FloorDiv" -> PyFloorDiv(left, right)
      [] op = "Mod" -> PyMod(left, right)
      [] op = "Pow" -> PyPow(left, right)
      [] OTHER -> Raise("ValueError", "Unsupported operator")

apply_unaryop(op, operand) ==
    CASE op = "UAdd" -> Return(PyPos(operand))
      [] op = "USub" -> Return(PyNeg(operand))
      [] OTHER -> Raise("ValueError", "Unsupported unary operator")

lookup_name(name, C) ==
    IF name \in DOMAIN C
    THEN Return(C[name])
    ELSE Raise("ValueError", "Unknown constant")

\* variant of visit_BinOp that visits the right operand first
visit_BinOp_RightFirst(op, left, right) ==
    IF ~right.ok THEN right
    ELSE IF ~left.ok THEN left
    ELSE apply_binop(op, left.val, right.val)

\* the BinOp case of visit, given what visiting each operand yields: the right
\* operand is visited only when the left one returned
visit_BinOp(op, left, right) ==
    IF ~left.ok THEN left
    ELSE IF ~right.ok THEN right
    ELSE apply_binop(op, left.val, right.val)

\* the UnaryOp case of visit, given what visiting the operand yields
visit_UnaryOp(op, operand) ==
    IF ~operand.ok THEN operand
    ELSE apply_unaryop(op, operand.val)

\* the Constant case of visit: bool is a subclass of int, so True and False pass
IsNumberConstant(node) ==
    node.kind = "Constant" /\ node.value.ty \in {"int", "bool", "float"}

\* the list comprehension of _apply_call: the first argument that raises ends it
FirstFailure(results) ==
    LET i == CHOOSE i \in 1..Len(results) :
                 /\ ~results[i].ok
                 /\ \A j \in 1..(i - 1) : results[j].ok
    IN  results[i]

\* _apply_call, given what visiting each argument yields (arguments are visited
\* only once the function has been found)
apply_call(node, results, F) ==
    IF node.func.kind # "Name"
    THEN Raise("ValueError", "Only direct function calls are allowed")
    ELSE IF node.func.id \notin DOMAIN F
    THEN Raise("ValueError", "Unknown function")
    ELSE IF \E i \in 1..Len(results) : ~results[i].ok
    THEN FirstFailure(results)
    ELSE IF node.keywords # <<>>
    THEN Raise("ValueError", "Keyword arguments are not supported")
    ELSE MathCall(F[node.func.id], [i \in 1..Len(results) |-> results[i].val])

RECURSIVE visit(_, _, _)
visit(node, C, F) ==
    CASE node.kind = "Expression" -> visit(node.body, C, F)
      [] node.kind = "BinOp" ->
            visit_BinOp(node.op, visit(node.left, C, F), visit(node.right, C, F))
      [] node.kind = "UnaryOp" ->
            visit_UnaryOp(node.op, visit(node.operand, C, F))
      [] node.kind = "Call" ->
            apply_call(node, [i \in 1..Len(node.args) |-> visit(node.args[i], C, F)], F)
      [] IsNumberConstant(node) -> Return(node.value)
      [] node.kind = "Name" -> lookup_name(node.id, C)
      [] OTHER -> Raise("ValueError", "Unsupported expression")

(***************************************************************************)
(* The bounded set of parsed expressions the evaluator is run on.          *)
(***************************************************************************)
Num(n) == Constant(PyInt(n))
Flt(q) == Constant(PyFloat(q))

IntLiterals == {Num(n) : n \in 0..MaxInt}
\* 0.0, 1/FloatScale, ..., MaxInt/FloatScale and 1.0
FloatLiterals == {Flt(q) : q \in (0..MaxInt) \cup {FloatScale}}
Leaves ==
    IntLiterals \cup FloatLiterals
        \cup {Name("pi"), Name("bar"), Constant(PyBool(TRUE)), Constant(PyStr), List}
Operands == Leaves \cup {UnaryOp("USub", x) : x \in IntLiterals \cup FloatLiterals}

\* the seven operators of _apply_binop and one it has no case for
BinaryOperators == {"Add", "Sub", "Mult", "Div", "FloorDiv", "Mod", "Pow", "BitAnd"}
UnaryOperators == {"UAdd", "USub", "Invert"}

CoreOperands == {Num(0), Num(1), UnaryOp("USub", Num(1)), Flt(1), Name("bar")}
InnerBinOps ==
    {BinOp(x, op, y) : x \in CoreOperands, op \in {"Sub", "Div", "Mod", "Pow"}, y \in CoreOperands}
OuterOperands == CoreOperands \cup {List}
BinOps ==
    {BinOp(x, op, y) : x \in Operands, op \in BinaryOperators, y \in Operands}
        \cup {BinOp(x, op, y) : x \in InnerBinOps, op \in BinaryOperators, y \in OuterOperands}
        \cup {BinOp(x, op, y) : x \in OuterOperands, op \in BinaryOperators, y \in InnerBinOps}
UnaryOps == {UnaryOp(op, x) : op \in UnaryOperators, x \in Operands \cup InnerBinOps}

ArgumentExprs ==
    {Num(1), UnaryOp("USub", Num(1)), Flt(1), Name("bar"), List,
     BinOp(Num(1), "Div", Num(0))}
ArgumentLists == UNION {[1..n -> ArgumentExprs] : n \in 0..MaxArgs}
Callees == {Name(f) : f \in FunctionNames \cup {"foo"}} \cup {Attribute}
Calls == {Call(f, args, kw) : f \in Callees, args \in ArgumentLists, kw \in {<<>>, <<"x">>}}

Exprs == Operands \cup {Compare} \cup UnaryOps \cup BinOps \cup Calls

(***************************************************************************)
(* evaluate_expression on an already parsed expression.                    *)
(***************************************************************************)
None == [kind |-> "None"]

InitTables ==
    /\ consts = ALLOWED_CONSTANTS
    /\ funcs = ALLOWED_FUNCTIONS

InitEval ==
    /\ InitTables
    /\ phase = "idle"
    /\ ncalls = 0
    /\ expr = None
    /\ outcome = None
    /\ pc = "main"
    /\ argv = None
    /\ line = None
    /\ stdout = <<>>
    /\ nread = 0
    /\ nevals = 0

\* variant of evaluate_parsed in which a name that is looked up and not found
\* is entered into the constant table
evaluate_parsed_caching ==
    /\ phase = "idle"
    /\ phase' = "returned"
    /\ \E body \in Exprs : expr' = Expression(body)
    /\ outcome' = visit(expr', consts, funcs)
    /\ ncalls' = IF ncalls < MaxCalls THEN ncalls + 1 ELSE ncalls
    /\ consts' = IF ~outcome'.ok /\ outcome'.msg = "Unknown constant"
                 THEN [n \in DOMAIN consts \cup {"bar"} |->
                          IF n \in DOMAIN consts THEN consts[n] ELSE PyFloat(0)]
                 ELSE consts
    /\ UNCHANGED funcs
    /\ UNCHANGED progVars

\* evaluate_expression: a new SafeEvaluator visits the parsed tree
evaluate_parsed ==
    /\ phase = "idle"
    /\ phase' = "returned"
    /\ \E body \in Exprs : expr' = Expression(body)
    /\ outcome' = visit(expr', consts, funcs)
    /\ ncalls' = IF ncalls < MaxCalls THEN ncalls + 1 ELSE ncalls
    /\ UNCHANGED <<consts, funcs>>
    /\ UNCHANGED progVars

\* the caller takes the result; tree and evaluator are dropped
discard ==
    /\ phase = "returned"
    /\ phase' = "idle"
    /\ expr' = None
    /\ outcome' = None
    /\ UNCHANGED <<consts, funcs, ncalls>>
    /\ UNCHANGED progVars

NextEval ==
    \/ evaluate_parsed
    \/ discard

SpecEval == InitEval /\ [][NextEval]_vars

(***************************************************************************)
(* Strings are sequences of characters.                                    *)
(***************************************************************************)
UpperCase == <<"A", "B", "C", "D", "E", "F", "G", "H", "I", "J", "K", "L", "M",
               "N", "O", "P", "Q", "R", "S", "T", "U", "V", "W", "X", "Y", "Z">>
LowerCase == <<"a", "b", "c", "d", "e", "f", "g", "h", "i", "j", "k", "l", "m",
               "n", "o", "p", "q", "r", "s", "t", "u", "v", "w", "x", "y", "z">>

LowerChar(c) ==
    IF \E i \in 1..Len(UpperCase) : UpperCase[i] = c
    THEN LowerCase[CHOOSE i \in 1..Len(UpperCase) : UpperCase[i] = c]
    ELSE c

\* str.lower
lower(str) == [i \in 1..Len(str) |-> LowerChar(str[i])]

IsSpace(c) == c \in {" ", "\t", "\n", "\r"}

RECURSIVE lstrip(_)
lstrip(str) ==
    IF str # <<>> /\ IsSpace(Head(str)) THEN lstrip(Tail(str)) ELSE str

RECURSIVE rstrip(_)
rstrip(str) ==
    IF str # <<>> /\ IsSpace(str[Len(str)])
    THEN rstrip(SubSeq(str, 1, Len(str) - 1))
    ELSE str

\* str.strip
strip(str) == lstrip(rstrip(str))

(***************************************************************************)
(* ast.parse(text, mode="eval") on the texts the program is run on.        *)
(***************************************************************************)
SyntaxError == Raise("SyntaxError", "invalid syntax")
IndentationError == Raise("SyntaxError", "unexpected indent")

ast_parse(text) ==
    CASE text = <<>> -> SyntaxError
      [] text # <<>> /\ IsSpace(Head(text)) -> IndentationError
      [] text = <<"1", "+", "1">> -> Return(Expression(BinOp(Num(1), "Add", Num(1))))
      [] text = <<"1", "/", "0">> -> Return(Expression(BinOp(Num(1), "Div", Num(0))))
      [] text = <<"1", "+">> -> SyntaxError
      [] text = <<"p", "i">> -> Return(Expression(Name("pi")))
      [] text = <<"b", "a", "r">> -> Return(Expression(Name("bar")))
      [] text = <<"q", "u", "i", "t">> -> Return(Expression(Name("quit")))
      [] text = <<"q", "u", "i", "t", "s">> -> Return(Expression(Name("quits")))
      [] text = <<"Q", "U", "I", "T">> -> Return(Expression(Name("QUIT")))
      [] text = <<"E", "x", "i", "t">> -> Return(Expression(Name("Exit")))
      [] text = <<"e", "x", "i", "t">> -> Return(Expression(Name("exit")))
      [] text = <<"T", "r", "u", "e">> -> Return(Expression(Constant(PyBool(TRUE))))
      [] text = <<"[", "1", "]">> -> Return(Expression(List))

evaluate_expression(expression, C, F) ==
    LET parsed == ast_parse(expression)
    IN  IF parsed.ok THEN visit(parsed.val, C, F) ELSE parsed

(***************************************************************************)
(* The program: main and run_repl.                                         *)
(***************************************************************************)
Str(text) == [kind |-> "str", text |-> text]

\* the command lines the program is started with: no argument, or one string
Arguments ==
    {None} \cup {Str(t) : t \in {<<>>, <<" ">>, <<"1", "+", "1">>, <<" ", "1", "+", "1">>, <<"1", "/", "0">>, <<"q", "u", "i", "t">>, <<"b", "a", "r">>, <<"T", "r", "u", "e">>}}

\* the lines input() returns
Lines ==
    {<<>>, <<" ">>, <<" ", "\t">>,
     <<"q", "u", "i", "t">>, <<"Q", "U", "I", "T">>, <<" ", "E", "x", "i", "t", " ">>, <<"e", "x", "i", "t", "\t">>,
     <<"q", "u", "i", "t", "s">>, <<"1", "+", "1">>, <<" ", "1", "/", "0">>, <<"b", "a", "r", " ">>, <<"1", "+">>,
     <<"T", "r", "u", "e">>, <<"p", "i">>, <<"[", "1", "]">>}

EOF == [kind |-> "EOF"]

Banner == [kind |-> "banner"]
Newline == [kind |-> "newline"]
\* print(result)
ResultLine(val) == [kind |-> "result", val |-> val]
\* print(f"Error: {exc}")
ErrorLine(msg) == [kind |-> "error", msg |-> msg]

\* `if args.expression:` and `if not expression:` test truthiness
Truthy(str) == str # None /\ str.text # <<>>

\* variant of ExceptException: `except ValueError`
ExceptValueErrorOnly(exc) == exc = "ValueError"

\* `except Exception` catches every exception class the evaluation raises
ExceptException(exc) ==
    exc \in {"ValueError", "TypeError", "ZeroDivisionError", "SyntaxError"}

\* variant of IsQuit without the call of lower
IsQuitCaseSensitive(expression) == expression \in {<<"q", "u", "i", "t">>, <<"e", "x", "i", "t">>}

\* `expression.lower() in {"quit", "exit"}`
IsQuit(expression) == lower(expression) \in {<<"q", "u", "i", "t">>, <<"e", "x", "i", "t">>}

Init ==
    /\ InitTables
    /\ phase = "idle"
    /\ ncalls = 0
    /\ expr = None
    /\ outcome = None
    /\ pc = "main"
    /\ argv \in Arguments
    /\ line = None
    /\ stdout = <<>>
    /\ nread = 0
    /\ nevals = 0

\* main with an expression argument: evaluate once, print, exit; an exception
\* is not caught and ends the process with a traceback
main_expression ==
    /\ pc = "main"
    /\ Truthy(argv)
    /\ outcome' = evaluate_expression(argv.text, consts, funcs)
    /\ nevals' = nevals + 1
    /\ IF outcome'.ok
       THEN /\ stdout' = Append(stdout, ResultLine(outcome'.val))
            /\ pc' = "exit0"
       ELSE /\ stdout' = stdout
            /\ pc' = "traceback"
    /\ UNCHANGED <<consts, funcs, phase, ncalls, expr, argv, line, nread>>

\* main otherwise: run_repl prints its banner and prompts
main_repl ==
    /\ pc = "main"
    /\ ~Truthy(argv)
    /\ stdout' = Append(stdout, Banner)
    /\ pc' = "prompt"
    /\ UNCHANGED <<consts, funcs, phase, ncalls, expr, outcome, argv, line, nread, nevals>>

\* input() raises EOFError
repl_eof ==
    /\ pc = "prompt"
    /\ line' = EOF
    /\ nread' = nread + 1
    /\ stdout' = Append(stdout, Newline)
    /\ pc' = "exit0"
    /\ UNCHANGED <<consts, funcs, phase, ncalls, expr, outcome, argv, nevals>>

\* the stripped line is empty: continue
repl_blank ==
    /\ pc = "prompt"
    /\ nread < MaxLines
    /\ \E l \in Lines :
        /\ strip(l) = <<>>
        /\ line' = Str(l)
    /\ nread' = nread + 1
    /\ UNCHANGED <<consts, funcs, phase, ncalls, expr, outcome, pc, argv, stdout, nevals>>

\* quit or exit: return
repl_quit ==
    /\ pc = "prompt"
    /\ nread < MaxLines
    /\ \E l \in Lines :
        /\ strip(l) # <<>>
        /\ IsQuit(strip(l))
        /\ line' = Str(l)
    /\ nread' = nread + 1
    /\ pc' = "exit0"
    /\ UNCHANGED <<consts, funcs, phase, ncalls, expr, outcome, argv, stdout, nevals>>

\* any other line is evaluated; an exception that the except clause catches
\* is printed and the loop continues
repl_evaluate ==
    /\ pc = "prompt"
    /\ nread < MaxLines
    /\ \E l \in Lines :
        /\ strip(l) # <<>>
        /\ ~IsQuit(strip(l))
        /\ line' = Str(l)
        /\ outcome' = evaluate_expression(strip(l), consts, funcs)
    /\ nread' = nread + 1
    /\ nevals' = nevals + 1
    /\ IF outcome'.ok
       THEN /\ stdout' = Append(stdout, ResultLine(outcome'.val))
            /\ pc' = "prompt"
       ELSE IF ExceptException(outcome'.exc)
       THEN /\ stdout' = Append(stdout, ErrorLine(outcome'.msg))
            /\ pc' = "prompt"
       ELSE /\ stdout' = stdout
            /\ pc' = "traceback"
    /\ UNCHANGED <<consts, funcs, phase, ncalls, expr, argv>>

Next ==
    \/ main_expression
    \/ main_repl
    \/ repl_eof
    \/ repl_blank
    \/ repl_quit
    \/ repl_evaluate

Spec == Init /\ [][Next]_vars

(***************************************************************************)
(* Properties.                                                             *)
(***************************************************************************)
Returned == phase = "returned"
IsCall(node) == node.kind = "Call"
IsDirectCall(node) == IsCall(node) /\ node.func.kind = "Name"
IsTableCall(node) == IsDirectCall(node) /\ node.func.id \in FunctionNames
\* what visiting a subtree yields in a fresh process
Fresh(node) == visit(node, ALLOWED_CONSTANTS, ALLOWED_FUNCTIONS)
ArgsAllReturn(node) == \A i \in 1..Len(node.args) : Fresh(node.args[i]).ok
SevenOperators == {"Add", "Sub", "Mult", "Div", "FloorDiv", "Mod", "Pow"}

\* the grammar of the specification: number literals, table constants, calls of
\* table functions with positional arguments, unary + and -, the seven operators
RECURSIVE Permitted(_)
Permitted(node) ==
    CASE node.kind = "Expression" -> Permitted(node.body)
      [] node.kind = "Constant" -> node.value.ty \in {"int", "float"}
      [] node.kind = "Name" -> node.id \in {"pi", "e", "tau"}
      [] node.kind = "UnaryOp" -> node.op \in {"UAdd", "USub"} /\ Permitted(node.operand)
      [] node.kind = "BinOp" ->
            node.op \in SevenOperators /\ Permitted(node.left) /\ Permitted(node.right)
      [] node.kind = "Call" ->
            /\ IsTableCall(node)
            /\ node.keywords = <<>>
            /\ \A i \in 1..Len(node.args) : Permitted(node.args[i])
      [] OTHER -> FALSE

\* C1: evaluate_expression returns a numeric result only for expressions built
\* solely from the permitted node shapes; an expression holding any other
\* construct (a boolean literal, a string, a list, ...) never yields a value.
C1_ValueOnlyForPermittedShapes ==
    (Returned /\ outcome.ok) => Permitted(expr)

\* C2: a Div, FloorDiv or Mod whose right operand evaluates to exactly zero fails
\* with a division-by-zero error, whatever the left operand evaluates to.
C2_ZeroDivisorRaisesZeroDivision ==
    (/\ Returned
     /\ expr.body.kind = "BinOp"
     /\ expr.body.op \in {"Div", "FloorDiv", "Mod"}
     /\ Fresh(expr.body.left).ok
     /\ Fresh(expr.body.right).ok
     /\ IsZero(Fresh(expr.body.right).val))
        => (~outcome.ok /\ outcome.exc = "ZeroDivisionError")

\* C3: a Pow of a negative base and a non-integer exponent fails with a math
\* domain error; the expression never returns a complex value.
C3_ComplexPowRaisesDomainError ==
    /\ (/\ Returned
        /\ expr.body.kind = "BinOp"
        /\ expr.body.op = "Pow"
        /\ Fresh(expr.body.left).ok
        /\ Fresh(expr.body.right).ok
        /\ ~IsComplex(Fresh(expr.body.left).val)
        /\ IsFloat(Fresh(expr.body.right).val)
        /\ Units(Fresh(expr.body.left).val) < 0
        /\ Fresh(expr.body.right).val.v % FloatScale # 0)
            => (~outcome.ok /\ outcome.msg = "math domain error")
    /\ (Returned /\ outcome.ok) => ~IsComplex(outcome.val)

\* C4 as stated: every table function has arity 1, log included; a call with any
\* other argument count (log(8, 2), sin(1, 2), sin()) never returns a numeric
\* result.
C4_EveryFunctionHasArityOne ==
    (Returned /\ IsTableCall(expr.body) /\ Len(expr.body.args) # 1) => ~outcome.ok

\* C4 as amended: every table function but log has arity 1 and log takes one or
\* two arguments; a call with any other argument count never returns a numeric
\* result, and fails with an arity error (a TypeError) when its arguments
\* evaluate and it has no keyword arguments.
C4_ArityOneButLog ==
    (/\ Returned
     /\ IsTableCall(expr.body)
     /\ Len(expr.body.args) # 1
     /\ ~(expr.body.func.id = "log" /\ Len(expr.body.args) = 2))
        => /\ ~outcome.ok
           /\ (ArgsAllReturn(expr.body) /\ expr.body.keywords = <<>>)
                 => outcome.exc = "TypeError"

C4_Witness ==
    /\ Returned
    /\ IsTableCall(expr.body)
    /\ expr.body.func.id # "log"
    /\ Len(expr.body.args) = 2
    /\ ArgsAllReturn(expr.body)
    /\ expr.body.keywords = <<>>
    /\ ~outcome.ok
    /\ outcome.exc = "TypeError"

\* C5: a direct call that carries a keyword argument is rejected with the
\* keyword-arguments error, whatever its function name is and whatever its
\* positional arguments evaluate or fail to.
C5_KeywordCallRejectedFirst ==
    (Returned /\ IsDirectCall(expr.body) /\ expr.body.keywords # <<>>)
        => (~outcome.ok /\ outcome.msg = "Keyword arguments are not supported")

\* C6: evaluation is stateless: after any sequence of calls the two tables are
\* what they were at start-up, and what a call yields is what the same
\* expression yields in a fresh process.
C6_Stateless ==
    /\ consts = ALLOWED_CONSTANTS
    /\ funcs = ALLOWED_FUNCTIONS
    /\ Returned => outcome = Fresh(expr)

C6_Witness ==
    /\ Returned
    /\ ncalls >= 2
    /\ expr.body = Name("bar")
    /\ ~outcome.ok

\* C10: the walk is left to right and post-order: when both operands of a BinOp
\* fail the left one's error is reported; an unknown function name is reported
\* even when an argument would fail; otherwise the first failing argument's
\* error is reported, before the function is applied.
C10_LeftToRightErrors ==
    /\ (/\ Returned
        /\ expr.body.kind = "BinOp"
        /\ ~Fresh(expr.body.left).ok
        /\ ~Fresh(expr.body.right).ok)
            => outcome = Fresh(expr.body.left)
    /\ (Returned /\ IsDirectCall(expr.body) /\ ~IsTableCall(expr.body))
            => outcome = Raise("ValueError", "Unknown function")
    /\ (Returned /\ IsTableCall(expr.body))
            => \A i \in 1..Len(expr.body.args) :
                  (/\ ~Fresh(expr.body.args[i]).ok
                   /\ \A j \in 1..(i - 1) : Fresh(expr.body.args[j]).ok)
                      => outcome = Fresh(expr.body.args[i])

C10_Witness ==
    /\ Returned
    /\ expr.body.kind = "BinOp"
    /\ ~Fresh(expr.body.left).ok
    /\ ~Fresh(expr.body.right).ok
    /\ Fresh(expr.body.left) # Fresh(expr.body.right)
    /\ outcome = Fresh(expr.body.left)

\* word in any mix of upper and lower case
EqualsIgnoringCase(str, word, WORD) ==
    /\ Len(str) = Len(word)
    /\ \A i \in 1..Len(str) : str[i] = word[i] \/ str[i] = WORD[i]
QuitOrExit(str) ==
    \/ EqualsIgnoringCase(str, <<"q", "u", "i", "t">>, <<"Q", "U", "I", "T">>)
    \/ EqualsIgnoringCase(str, <<"e", "x", "i", "t">>, <<"E", "X", "I", "T">>)

\* an iteration of the loop that read a line
ReadsLine == pc = "prompt" /\ nread' = nread + 1 /\ line' # EOF

\* C7: in the interactive loop an evaluation error never ends the loop: a
\* non-empty line other than quit/exit whose evaluation fails prints exactly
\* one error line and no result, and the loop prompts again.
C7_ErrorKeepsLoopRunning ==
    [][(/\ ReadsLine
        /\ strip(line'.text) # <<>>
        /\ ~QuitOrExit(strip(line'.text))
        /\ ~evaluate_expression(strip(line'.text), consts, funcs).ok)
            => /\ pc' = "prompt"
               /\ stdout' = Append(stdout,
                      ErrorLine(evaluate_expression(strip(line'.text), consts, funcs).msg))]_vars

C7_Witness ==
    /\ pc = "prompt"
    /\ nread >= 2
    /\ line = Str(<<" ", "1", "/", "0">>)
    /\ outcome = ZeroDivisionError
    /\ stdout[Len(stdout)] = ErrorLine("division by zero")

C9_ArgumentNeverEntersLoop ==
    argv # None
        => /\ pc # "prompt"
           /\ nread = 0
           /\ pc \in {"exit0", "traceback"} => nevals = 1
====
